---- MODULE Spec2Model ----
(***************************************************************************)
(* Model of inventory.py: one module-level mapping stock_data, mutated by  *)
(* add_item / remove_item / load_data, read by get_qty / check_low_items   *)
(* and written to disk by save_data.                                       *)
(*                                                                         *)
(* Python values are records [kind, s, n]: kind is the Python type, s the  *)
(* characters of a str (or the elements of a list), n the number of an int *)
(* or bool.  A dict is the sequence of its [k, v] entries in insertion     *)
(* order.  Text on disk is a sequence of one-character strings.            *)
(***************************************************************************)
EXTENDS Integers, Sequences, FiniteSets, TLC

VARIABLES stock_data, files, logs, last, added, okLogged, ncalls, saved

vars == <<stock_data, files, logs, last, added, okLogged, ncalls, saved>>

(* ------------------------------ bounds -------------------------------- *)

\* Largest quantity an add_item call of the model may bring an entry to.
MaxQty == 2
\* Largest quantity of a run that saves and loads: two digits on disk.
MaxBig == 10
\* Largest quantity of a run that lists the low items: above the default threshold.
MaxLow == 7
\* Number of add_item calls in a run of SpecAdd.
MaxCalls == 3
\* Largest threshold passed to check_low_items besides the default.
MaxThreshold == MaxQty + 1

(* --------------------------- Python values ---------------------------- *)

Str(chars) == [kind |-> "str", s |-> chars, n |-> 0]
IntV(i) == [kind |-> "int", s |-> <<>>, n |-> i]
\* True is 1 and False is 0 in arithmetic and comparisons.
BoolV(b) == [kind |-> "bool", s |-> <<>>, n |-> IF b THEN 1 ELSE 0]
\* The float 1.5, kept by its repr.
FloatV == [kind |-> "float", s |-> <<"1", ".", "5">>, n |-> 0]
NoneV == [kind |-> "None", s |-> <<>>, n |-> 0]
\* The list ["x"]: a value that is neither a str nor hashable.
ListV == [kind |-> "list", s |-> <<"x">>, n |-> 0]

\* isinstance(v, int): bool is a subclass of int.
IsInstanceInt(v) == v.kind \in {"int", "bool"}
IsInstanceStr(v) == v.kind = "str"
\* bool(v), as "not item" evaluates it.
Truthy(v) ==
    CASE v.kind = "str" -> Len(v.s) > 0
      [] v.kind = "list" -> Len(v.s) > 0
      [] v.kind \in {"int", "bool"} -> v.n # 0
      [] v.kind = "float" -> TRUE
      [] OTHER -> FALSE
\* hash(v) succeeds: of the values above only the list has no hash.
Hashable(v) == v.kind # "list"

NameA == <<"a">>
NameB == <<"b", "c">>
Names == {NameA, NameB}

ItemArgs == {Str(NameA), Str(NameB), Str(<<>>), IntV(123), ListV}
QtyArgs == {IntV(i) : i \in -1..MaxQty} \cup {BoolV(TRUE), Str(<<"t", "e", "n">>), FloatV}
\* Valid arguments only, with quantities of one and two digits.
NameArgs == {Str(NameA), Str(NameB)}
BigArgs == {IntV(0), IntV(5), IntV(10)}
\* Valid quantities that bring entries below, to and above the default threshold.
LowArgs == {IntV(0), IntV(2), IntV(5)}
NoArg == NoneV

(* ------------------------------- dict --------------------------------- *)

EmptyDict == [kind |-> "dict", items |-> <<>>]
\* The value json.load returns for the document [].
EmptyList == [kind |-> "list", items |-> <<>>]

IsDict(d) == d.kind = "dict"
Keys(d) == {d.items[i].k : i \in 1..Len(d.items)}
Index(d, key) == CHOOSE i \in 1..Len(d.items) : d.items[i].k = key
\* d.get(key, dflt)
DictGet(d, key, dflt) == IF key \in Keys(d) THEN d.items[Index(d, key)].v ELSE dflt
\* d[key] = val: an existing key keeps its position, a new one goes last.
DictSet(d, key, val) ==
    IF key \in Keys(d)
    THEN [d EXCEPT !.items[Index(d, key)].v = val]
    ELSE [d EXCEPT !.items = Append(@, [k |-> key, v |-> val])]
\* del d[key]
DictDel(d, key) ==
    LET i == Index(d, key)
    IN [d EXCEPT !.items = SubSeq(@, 1, i - 1) \o SubSeq(@, i + 1, Len(@))]

(* ------------------------ json.dump / json.load ----------------------- *)

Digits == <<"0", "1", "2", "3", "4", "5", "6", "7", "8", "9">>
Quote == "\""
Whitespace == {" ", "\n", "\t", "\r"}

RECURSIVE NatText(_)
NatText(i) ==
    IF i < 10 THEN <<Digits[i + 1]>> ELSE NatText(i \div 10) \o <<Digits[(i % 10) + 1]>>
\* A formatter that keeps only the last digit.
IntTextLastDigit(i) == <<Digits[(i % 10) + 1]>>
\* The decimal text of an int.
IntText(i) == IF i < 0 THEN <<"-">> \o NatText(-i) ELSE NatText(i)
\* A key between quotes (the names of the model need no escapes).
KeyText(key) == <<Quote>> \o key \o <<Quote>>
\* One member at indent 2: two spaces, the key, ": ", the value.
EntryText(e) == <<" ", " ">> \o KeyText(e.k) \o <<":", " ">> \o IntText(e.v)
RECURSIVE EntriesText(_)
EntriesText(items) ==
    IF Len(items) = 1 THEN EntryText(items[1])
    ELSE EntryText(items[1]) \o <<",", "\n">> \o EntriesText(Tail(items))
\* json.dump(obj, f, indent=2): members in insertion order, one per line.
Dumps(d) ==
    IF d.kind = "list" THEN <<"[", "]">>
    ELSE IF d.items = <<>> THEN <<"{", "}">>
    ELSE <<"{", "\n">> \o EntriesText(d.items) \o <<"\n", "}">>

Fail == [ok |-> FALSE, pos |-> 0, chars |-> <<>>, num |-> 0, val |-> EmptyDict]
At(t, p) == IF p <= Len(t) THEN t[p] ELSE "EOF"

RECURSIVE SkipWs(_, _)
SkipWs(t, p) == IF At(t, p) \in Whitespace THEN SkipWs(t, p + 1) ELSE p

\* The characters up to the closing quote; p is the position after the opening one.
RECURSIVE ScanString(_, _, _)
ScanString(t, p, acc) ==
    IF p > Len(t) \/ t[p] = "\n" THEN Fail
    ELSE IF t[p] = Quote THEN [Fail EXCEPT !.ok = TRUE, !.pos = p + 1, !.chars = acc]
    ELSE ScanString(t, p + 1, Append(acc, t[p]))
ParseString(t, p) == IF At(t, p) = Quote THEN ScanString(t, p + 1, <<>>) ELSE Fail

IsDigit(c) == \E i \in 1..10 : Digits[i] = c
DigitVal(c) == (CHOOSE i \in 1..10 : Digits[i] = c) - 1
RECURSIVE ScanDigits(_, _, _)
ScanDigits(t, p, acc) ==
    IF IsDigit(At(t, p)) THEN ScanDigits(t, p + 1, 10 * acc + DigitVal(t[p]))
    ELSE [Fail EXCEPT !.ok = TRUE, !.pos = p, !.num = acc]
\* An integer: -?(0|[1-9][0-9]*), not followed by a fraction or an exponent.
ParseNat(t, p) ==
    IF ~IsDigit(At(t, p)) THEN Fail
    ELSE LET r == IF t[p] = "0" THEN [Fail EXCEPT !.ok = TRUE, !.pos = p + 1]
                  ELSE ScanDigits(t, p, 0)
         IN IF At(t, r.pos) \in {".", "e", "E"} THEN Fail ELSE r
ParseInt(t, p) ==
    IF At(t, p) = "-"
    THEN LET r == ParseNat(t, p + 1) IN IF r.ok THEN [r EXCEPT !.num = -r.num] ELSE Fail
    ELSE ParseNat(t, p)

\* The members after "{" or ",": p is at the key; d holds the members read so far.
RECURSIVE ParseMembers(_, _, _)
ParseMembers(t, p, d) ==
    LET key == ParseString(t, p)
        colon == SkipWs(t, key.pos)
        num == ParseInt(t, SkipWs(t, colon + 1))
        after == SkipWs(t, num.pos)
    IN IF ~key.ok \/ At(t, colon) # ":" THEN Fail
       ELSE IF ~num.ok THEN Fail
       ELSE IF At(t, after) = "}"
            THEN [Fail EXCEPT !.ok = TRUE, !.pos = after + 1,
                              !.val = DictSet(d, key.chars, num.num)]
       ELSE IF At(t, after) = ","
            THEN ParseMembers(t, SkipWs(t, after + 1), DictSet(d, key.chars, num.num))
       ELSE Fail
ParseObject(t, p) ==
    LET q == SkipWs(t, p + 1)
    IN IF At(t, q) = "}" THEN [Fail EXCEPT !.ok = TRUE, !.pos = q + 1, !.val = EmptyDict]
       ELSE ParseMembers(t, q, EmptyDict)
\* Only the empty array is read; no file of the model holds another one.
ParseArray(t, p) ==
    LET q == SkipWs(t, p + 1)
    IN IF At(t, q) = "]" THEN [Fail EXCEPT !.ok = TRUE, !.pos = q + 1, !.val = EmptyList]
       ELSE Fail
\* json.load: one value, then only whitespace.  ok = FALSE is JSONDecodeError.
Loads(t) ==
    LET p == SkipWs(t, 1)
        r == CASE At(t, p) = "{" -> ParseObject(t, p)
               [] At(t, p) = "[" -> ParseArray(t, p)
               [] OTHER -> Fail
    IN IF r.ok /\ SkipWs(t, r.pos) = Len(t) + 1 THEN r ELSE Fail

(* ------------------------------- files -------------------------------- *)

InventoryPath == "inventory.json"
MissingPath == "missing.json"
BadPath == "bad.json"
ListPath == "list.json"
DirPath == "dir"
Paths == {InventoryPath, MissingPath, BadPath, ListPath, DirPath}
\* save_data is called on the inventory file and on the directory.
SavePaths == {InventoryPath, DirPath}

Absent == [kind |-> "absent", text |-> <<>>]
Directory == [kind |-> "dir", text |-> <<>>]
File(text) == [kind |-> "file", text |-> text]
\* An object cut short before its closing brace: {"a": 1
BadText == <<"{", Quote, "a", Quote, ":", " ", "1">>
ListText == <<"[", "]">>

(* ---------------------------- the last call --------------------------- *)

NoThreshold == [given |-> FALSE, n |-> 0]
Threshold(i) == [given |-> TRUE, n |-> i]
ThresholdArgs == {Threshold(i) : i \in 0..MaxThreshold} \cup {NoThreshold}
\* Thresholds around every quantity of a run of SpecLow, and none.
LowThresholdArgs == {Threshold(i) : i \in 0..(MaxLow + 1)} \cup {NoThreshold}

\* What the caller sees of a call: ret is "True", "False", "value" (get_qty and
\* check_low_items, with the value in num or names) or "raise" (exc escapes).
Call(op) ==
    [op |-> op, item |-> NoArg, qty |-> NoArg, path |-> "", thr |-> NoThreshold,
     logged |-> FALSE, ret |-> "", exc |-> "", num |-> 0, names |-> <<>>]

(* ------------------------------ add_item ------------------------------ *)

\* A check of the type alone, which lets the empty string through.
BadItemTypeOnly(item) == ~IsInstanceStr(item)
\* Line 32: not item or not isinstance(item, str)
BadItem(item) == ~Truthy(item) \/ ~IsInstanceStr(item)
\* Line 36: not isinstance(qty, int) or qty < 0
BadQty(qty) == ~IsInstanceInt(qty) \/ qty.n < 0
\* Line 41: the message, by its three interpolated parts.
LogMessage(now, qty, item) == [time |-> now, qty |-> qty, item |-> item]
\* A store that overwrites the quantity instead of adding to it.
AddStoreOverwrite(sd, item, qty) == DictSet(sd, item.s, qty.n)
\* Line 40: stock_data[item] = stock_data.get(item, 0) + qty
AddStore(sd, item, qty) == DictSet(sd, item.s, DictGet(sd, item.s, 0) + qty.n)

\* An add_item that appends its message before it validates.
AddItemLogsFirst(sd, item, qty) ==
    IF BadItem(item) \/ BadQty(qty)
    THEN [ret |-> "False", exc |-> "", sd |-> sd, logged |-> TRUE]
    ELSE IF ~IsDict(sd)
    THEN [ret |-> "raise", exc |-> "AttributeError", sd |-> sd, logged |-> TRUE]
    ELSE [ret |-> "True", exc |-> "", sd |-> AddStore(sd, item, qty), logged |-> TRUE]
\* The outcome of add_item on inventory sd: the value returned or the exception,
\* the inventory afterwards and whether a message was appended.
AddItem(sd, item, qty) ==
    IF BadItem(item) \/ BadQty(qty)
    THEN [ret |-> "False", exc |-> "", sd |-> sd, logged |-> FALSE]
    ELSE IF ~IsDict(sd)
    THEN [ret |-> "raise", exc |-> "AttributeError", sd |-> sd, logged |-> FALSE]
    ELSE [ret |-> "True", exc |-> "", sd |-> AddStore(sd, item, qty), logged |-> TRUE]

\* add_item(item, qty, logs): given says whether the caller passes its list.
AddItemCall(item, qty, given) ==
    LET r == AddItem(stock_data, item, qty)
    IN /\ stock_data' = r.sd
       /\ logs' = IF given /\ r.logged
                  THEN Append(logs, LogMessage(ncalls + 1, qty, item))
                  ELSE logs
       /\ last' = [Call("add_item") EXCEPT !.item = item, !.qty = qty, !.logged = given,
                                           !.ret = r.ret, !.exc = r.exc]
       /\ UNCHANGED files

(* ----------------------------- remove_item ---------------------------- *)

\* A removal that deletes the entry only below zero.
RemoveStoreKeepsZero(sd, item, qty) ==
    LET left == DictGet(sd, item.s, 0) - qty.n
    IN IF left < 0 THEN DictDel(sd, item.s) ELSE DictSet(sd, item.s, left)
\* Lines 64-66: stock_data[item] -= qty, and the entry goes when it is <= 0.
RemoveStore(sd, item, qty) ==
    LET left == DictGet(sd, item.s, 0) - qty.n
    IN IF left <= 0 THEN DictDel(sd, item.s) ELSE DictSet(sd, item.s, left)

\* item in stock_data: a dict hashes the item, a list compares it to its elements.
Contains(sd, item) == IsDict(sd) /\ IsInstanceStr(item) /\ item.s \in Keys(sd)

RemoveItem(sd, item, qty) ==
    IF IsDict(sd) /\ ~Hashable(item)
    THEN [ret |-> "raise", exc |-> "TypeError", sd |-> sd]
    ELSE IF ~Contains(sd, item) THEN [ret |-> "False", exc |-> "", sd |-> sd]
    ELSE IF BadQty(qty) THEN [ret |-> "False", exc |-> "", sd |-> sd]
    ELSE [ret |-> "True", exc |-> "", sd |-> RemoveStore(sd, item, qty)]

RemoveItemCall(item, qty) ==
    LET r == RemoveItem(stock_data, item, qty)
    IN /\ stock_data' = r.sd
       /\ last' = [Call("remove_item") EXCEPT !.item = item, !.qty = qty,
                                              !.ret = r.ret, !.exc = r.exc]
       /\ UNCHANGED <<files, logs>>

(* ------------------------------- get_qty ------------------------------ *)

GetQty(sd, item) ==
    IF ~IsDict(sd) THEN [ret |-> "raise", exc |-> "AttributeError", num |-> 0]
    ELSE IF ~Hashable(item) THEN [ret |-> "raise", exc |-> "TypeError", num |-> 0]
    ELSE [ret |-> "value", exc |-> "",
          num |-> IF IsInstanceStr(item) THEN DictGet(sd, item.s, 0) ELSE 0]

GetQtyCall(item) ==
    LET r == GetQty(stock_data, item)
    IN /\ last' = [Call("get_qty") EXCEPT !.item = item, !.ret = r.ret, !.exc = r.exc,
                                          !.num = r.num]
       /\ UNCHANGED <<stock_data, files, logs>>

(* ------------------------------ load_data ----------------------------- *)

\* A load_data that empties the inventory on malformed JSON as on a missing file.
LoadDataResetsOnError(sd, f) ==
    CASE f.kind = "absent" -> [ret |-> "False", exc |-> "", sd |-> EmptyDict]
      [] f.kind = "dir" -> [ret |-> "raise", exc |-> "IsADirectoryError", sd |-> sd]
      [] OTHER ->
           LET r == Loads(f.text)
           IN IF r.ok THEN [ret |-> "True", exc |-> "", sd |-> r.val]
              ELSE [ret |-> "False", exc |-> "", sd |-> EmptyDict]
\* The outcome of load_data on a file f.
LoadData(sd, f) ==
    CASE f.kind = "absent" -> [ret |-> "False", exc |-> "", sd |-> EmptyDict]
      [] f.kind = "dir" -> [ret |-> "raise", exc |-> "IsADirectoryError", sd |-> sd]
      [] OTHER ->
           LET r == Loads(f.text)
           IN IF r.ok THEN [ret |-> "True", exc |-> "", sd |-> r.val]
              ELSE [ret |-> "False", exc |-> "", sd |-> sd]

LoadDataCall(path) ==
    LET r == LoadData(stock_data, files[path])
    IN /\ stock_data' = r.sd
       /\ last' = [Call("load_data") EXCEPT !.path = path, !.ret = r.ret, !.exc = r.exc]
       /\ UNCHANGED <<files, logs>>

(* ------------------------------ save_data ----------------------------- *)

\* The outcome of save_data on a file f: open(file, "w") fails on a directory
\* with an OSError, which the handler turns into False.
SaveData(sd, f) ==
    IF f.kind = "dir" THEN [ret |-> "False", f |-> f]
    ELSE [ret |-> "True", f |-> File(Dumps(sd))]

SaveDataCall(path) ==
    LET r == SaveData(stock_data, files[path])
    IN /\ files' = [files EXCEPT ![path] = r.f]
       /\ last' = [Call("save_data") EXCEPT !.path = path, !.ret = r.ret]
       /\ UNCHANGED <<stock_data, logs>>

(* --------------------------- check_low_items -------------------------- *)

DefaultThreshold == 5

\* A comparison that also takes the items at the threshold.
AtOrBelow(quantity, threshold) == quantity <= threshold
\* Line 156: quantity < threshold
Below(quantity, threshold) == quantity < threshold

RECURSIVE LowItems(_, _)
\* Lines 154-158: the keys, in iteration order, whose quantity is below the threshold.
LowItems(items, threshold) ==
    IF items = <<>> THEN <<>>
    ELSE (IF Below(items[1].v, threshold) THEN <<items[1].k>> ELSE <<>>)
         \o LowItems(Tail(items), threshold)

CheckLowItems(sd, thr) ==
    IF ~IsDict(sd) THEN [ret |-> "raise", exc |-> "AttributeError", names |-> <<>>]
    ELSE [ret |-> "value", exc |-> "",
          names |-> LowItems(sd.items, IF thr.given THEN thr.n ELSE DefaultThreshold)]

CheckLowItemsCall(thr) ==
    LET r == CheckLowItems(stock_data, thr)
    IN /\ last' = [Call("check_low_items") EXCEPT !.thr = thr, !.ret = r.ret,
                                                  !.exc = r.exc, !.names = r.names]
       /\ UNCHANGED <<stock_data, files, logs>>

(* --------------------------- specifications --------------------------- *)

Init ==
    /\ stock_data = EmptyDict
    /\ files = [p \in Paths |->
                  CASE p = BadPath -> File(BadText)
                    [] p = ListPath -> File(ListText)
                    [] p = DirPath -> Directory
                    [] OTHER -> Absent]
    /\ logs = <<>>
    /\ last = Call("init")
    /\ added = [k \in Names |-> 0]
    /\ okLogged = 0
    /\ ncalls = 0
    /\ saved = [some |-> FALSE, sd |-> EmptyDict]

\* History: added, okLogged and ncalls record the add_item calls of SpecAdd;
\* saved is the inventory as it was at the last save_data call on the inventory
\* file that returned True.
history == <<added, okLogged, ncalls>>
ghost == <<added, okLogged, ncalls, saved>>

\* The arguments the specification accepts: a non-empty string, an integer >= 0.
ClaimItemOk(item) == item.kind = "str" /\ item.s # <<>>
ClaimQtyOk(qty) == qty.kind \in {"int", "bool"} /\ qty.n >= 0

\* The call keeps every quantity within max: the runs are cut there.
Within(item, qty, max) ==
    LET r == AddItem(stock_data, item, qty)
    IN r.ret = "True" => DictGet(r.sd, item.s, 0) <= max

Add == \E item \in ItemArgs, qty \in QtyArgs :
          Within(item, qty, MaxQty) /\ AddItemCall(item, qty, FALSE) /\ UNCHANGED ghost
Remove == \E item \in ItemArgs, qty \in QtyArgs :
             RemoveItemCall(item, qty) /\ UNCHANGED ghost
Get == \E item \in ItemArgs : GetQtyCall(item) /\ UNCHANGED ghost
Load == \E path \in Paths : LoadDataCall(path) /\ UNCHANGED ghost
Save == \E path \in SavePaths :
    /\ SaveDataCall(path)
    /\ saved' = IF path = InventoryPath /\ last'.ret = "True"
                THEN [some |-> TRUE, sd |-> stock_data] ELSE saved
    /\ UNCHANGED history
CheckLow == \E thr \in ThresholdArgs : CheckLowItemsCall(thr) /\ UNCHANGED ghost

Next == Add \/ Remove \/ Get \/ Load \/ Save \/ CheckLow

Spec == Init /\ [][Next]_vars

\* Runs of add_item calls only, from the empty inventory, with one list of logs
\* shared by the calls that pass one.  added, okLogged and ncalls record the
\* history: the sum of the quantities of the calls with acceptable arguments,
\* per name; the calls that returned True and were given the list; the calls made.
AddOnly == \E item \in ItemArgs, qty \in QtyArgs, given \in BOOLEAN :
    /\ ncalls < MaxCalls
    /\ Within(item, qty, MaxQty)
    /\ AddItemCall(item, qty, given)
    /\ ncalls' = ncalls + 1
    /\ added' = IF ClaimItemOk(item) /\ ClaimQtyOk(qty)
                THEN [added EXCEPT ![item.s] = @ + qty.n] ELSE added
    /\ okLogged' = IF given /\ last'.ret = "True" THEN okLogged + 1 ELSE okLogged
    /\ UNCHANGED saved

NextAdd == AddOnly \/ (ncalls = MaxCalls /\ Get)

SpecAdd == Init /\ [][NextAdd]_vars

\* Runs of valid calls with quantities of one and two digits, saved and loaded.
AddBig == \E item \in NameArgs, qty \in BigArgs :
             Within(item, qty, MaxBig) /\ AddItemCall(item, qty, FALSE) /\ UNCHANGED ghost
RemoveBig == \E item \in NameArgs, qty \in BigArgs :
                RemoveItemCall(item, qty) /\ UNCHANGED ghost

NextFile == AddBig \/ RemoveBig \/ Load \/ Save

SpecFile == Init /\ [][NextFile]_vars

\* Runs of valid calls with quantities on both sides of the default threshold,
\* of load_data on every file, and of check_low_items with and without a threshold.
AddLow == \E item \in NameArgs, qty \in LowArgs :
             Within(item, qty, MaxLow) /\ AddItemCall(item, qty, FALSE) /\ UNCHANGED ghost
RemoveLow == \E item \in NameArgs, qty \in LowArgs :
                RemoveItemCall(item, qty) /\ UNCHANGED ghost
CheckLowAny == \E thr \in LowThresholdArgs : CheckLowItemsCall(thr) /\ UNCHANGED ghost

NextLow == AddLow \/ RemoveLow \/ Load \/ CheckLowAny

SpecLow == Init /\ [][NextLow]_vars

(* ------------------------------- claims ------------------------------- *)

Value(sd, key) == DictGet(sd, key, 0)
IsMutator(op) == op \in {"add_item", "remove_item", "load_data", "save_data"}

\* C1: in every state reached by add_item, remove_item, load_data and save_data
\* calls from the empty inventory, no entry of stock_data has a quantity <= 0.
C1_NoEntryAtOrBelowZero ==
    IsDict(stock_data) => \A i \in 1..Len(stock_data.items) : stock_data.items[i].v > 0

\* C2: an add_item call whose item is empty or not a string, or whose qty is not
\* an integer >= 0, returns False and leaves stock_data as it was.
C2_AddRejectsBadArguments ==
    [][(last'.op = "add_item" /\ (~ClaimItemOk(last'.item) \/ ~ClaimQtyOk(last'.qty)))
         => (last'.ret = "False" /\ stock_data' = stock_data)]_vars
\* A non-empty inventory after add_item rejected a float quantity for a valid name.
C2_Witness ==
    /\ last.op = "add_item" /\ last.ret = "False"
    /\ ClaimItemOk(last.item) /\ last.qty.kind = "float"
    /\ IsDict(stock_data) /\ stock_data.items # <<>>

\* C3: after add_item calls only, from the empty inventory, get_qty of every item
\* is the sum of the quantities of the calls for it with acceptable arguments
\* (0 if none), and each call with acceptable arguments returns True.
C3_GetQtyIsSumOfValidAdds ==
    /\ \A item \in ItemArgs :
         Hashable(item) =>
           /\ GetQty(stock_data, item).ret = "value"
           /\ GetQty(stock_data, item).num =
                IF item.kind = "str" /\ item.s \in Names THEN added[item.s] ELSE 0
    /\ (last.op = "add_item" /\ ClaimItemOk(last.item) /\ ClaimQtyOk(last.qty))
         => last.ret = "True"
    /\ last.op = "get_qty" /\ last.item.kind = "str" /\ last.item.s \in Names
         => last.ret = "value" /\ last.num = added[last.item.s]
\* get_qty answered after several accepted adds for one name, none for the other.
C3_Witness ==
    /\ last.op = "get_qty" /\ last.item = Str(NameA) /\ last.num = MaxQty
    /\ added[NameA] = MaxQty /\ added[NameB] = 0
    /\ ncalls = MaxCalls /\ Len(logs) = 2 /\ okLogged = 2

\* C4: remove_item of a present item with an integer qty >= 0 returns True; the
\* entry is deleted (get_qty then 0) if qty >= its quantity c, and is left at
\* c - qty otherwise; the other items keep their quantities.
C4_RemovePresent ==
    [][(/\ last'.op = "remove_item"
        /\ Contains(stock_data, last'.item)
        /\ ClaimQtyOk(last'.qty))
         => LET key == last'.item.s
                c == Value(stock_data, key)
                q == last'.qty.n
            IN /\ last'.ret = "True"
               /\ q >= c => /\ key \notin Keys(stock_data')
                            /\ GetQty(stock_data', last'.item).num = 0
               /\ q < c => /\ key \in Keys(stock_data')
                           /\ Value(stock_data', key) = c - q
               /\ \A k \in Keys(stock_data) \cup Keys(stock_data') :
                    k # key => /\ k \in Keys(stock_data) /\ k \in Keys(stock_data')
                               /\ Value(stock_data', k) = Value(stock_data, k)]_vars
\* remove_item took less than the quantity of a present item while another item
\* was in stock.
C4_Witness ==
    /\ last.op = "remove_item" /\ last.ret = "True" /\ last.qty.n >= 1
    /\ IsDict(stock_data) /\ Len(stock_data.items) = 2
    /\ last.item.s \in Keys(stock_data)

\* C5: remove_item returns False and leaves stock_data as it was whenever the item
\* is absent from the inventory, or is present but qty is not an integer >= 0.
C5_RemoveFails ==
    [][(/\ last'.op = "remove_item"
        /\ \/ ~Contains(stock_data, last'.item)
           \/ ~ClaimQtyOk(last'.qty))
         => (last'.ret = "False" /\ stock_data' = stock_data)]_vars

\* C6: load_data of a file of malformed JSON returns False and leaves stock_data
\* as it was; load_data of an absent file returns False and leaves stock_data empty.
C6_FailedLoad ==
    [][(last'.op = "load_data")
         => /\ last'.path = BadPath => (last'.ret = "False" /\ stock_data' = stock_data)
            /\ files[last'.path].kind = "absent"
                 => (last'.ret = "False" /\ stock_data' = EmptyDict)]_vars
\* A non-empty inventory kept after load_data read the malformed file.
C6_Witness ==
    /\ last.op = "load_data" /\ last.path = BadPath /\ last.ret = "False"
    /\ IsDict(stock_data) /\ Len(stock_data.items) = 2

\* C7: save_data leaves stock_data as it was, and once save_data on a path has
\* returned True, load_data on that path returns True and makes stock_data the
\* mapping it was at the time of that save: the same keys with the same quantities.
C7_RoundTrip ==
    [][/\ last'.op = "save_data" => stock_data' = stock_data
       /\ (last'.op = "load_data" /\ last'.path = InventoryPath /\ saved.some)
            => /\ last'.ret = "True"
               /\ stock_data' = saved.sd]_vars
\* load_data restored two entries, one of two digits, over a different inventory
\* in memory.
C7_Witness ==
    /\ last.op = "load_data" /\ last.path = InventoryPath /\ last.ret = "True"
    /\ saved.some /\ stock_data = saved.sd
    /\ Len(stock_data.items) = 2
    /\ \E i \in 1..2 : stock_data.items[i].v = MaxBig

\* What check_low_items(threshold) is to return on inventory sd and what it
\* returned: exactly the names whose quantity is strictly below the threshold
\* (5 without an argument), each once, in insertion order.
LowItemsAsSpecified(sd, thr, ret, out) ==
    LET t == IF thr.given THEN thr.n ELSE 5
    IN /\ ret = "value"
       /\ {out[i] : i \in 1..Len(out)} = {k \in Keys(sd) : Value(sd, k) < t}
       /\ \A i, j \in 1..Len(out) :
            i < j => /\ out[i] # out[j]
                     /\ Index(sd, out[i]) < Index(sd, out[j])

\* C8: in every inventory state and for every integer threshold,
\* check_low_items(threshold) returns exactly the names whose quantity is
\* strictly below the threshold, each once, in insertion order, and leaves the
\* inventory as it was; without an argument the threshold is 5.
C8_LowItems ==
    [][(last'.op = "check_low_items")
         => /\ stock_data' = stock_data
            /\ LowItemsAsSpecified(stock_data, last'.thr, last'.ret, last'.names)]_vars
\* check_low_items() without an argument on {a: 7, bc: 2} returned only bc.
C8_Witness ==
    /\ last.op = "check_low_items" /\ last.ret = "value" /\ ~last.thr.given
    /\ last.names = <<NameB>>
    /\ stock_data = DictSet(DictSet(EmptyDict, NameA, 7), NameB, 2)

\* The same statement in the states where stock_data is a mapping, which is
\* every state but the one load_data leaves after reading the document [].
LowItemsOnMappings ==
    [][(last'.op = "check_low_items" /\ IsDict(stock_data))
         => /\ stock_data' = stock_data
            /\ LowItemsAsSpecified(stock_data, last'.thr, last'.ret, last'.names)]_vars
\* check_low_items(5) left out an item at exactly 5 and returned the other one.
LowItemsAtThreshold ==
    /\ last.op = "check_low_items" /\ last.ret = "value" /\ last.thr = Threshold(5)
    /\ Len(last.names) = 1
    /\ IsDict(stock_data) /\ Len(stock_data.items) = 2
    /\ \E i \in 1..2 : stock_data.items[i].v = 5

\* C9: add_item, remove_item, load_data and save_data always complete by returning
\* True or False: no exception escapes to the caller.
C9_NoExceptionEscapes == IsMutator(last.op) => last.ret \in {"True", "False"}

\* C10: an add_item call that returns True appends one entry at the end of the
\* list of logs it was given and leaves the earlier ones; one that returns False
\* leaves the list as it was; so the list is as long as the number of calls that
\* returned True.
C10_LogsAppendOnly ==
    [][(last'.op = "add_item" /\ last'.logged)
         => /\ last'.ret = "True" => /\ Len(logs') = Len(logs) + 1
                                     /\ SubSeq(logs', 1, Len(logs)) = logs
                                     /\ logs'[Len(logs')].item = last'.item
                                     /\ logs'[Len(logs')].qty = last'.qty
            /\ last'.ret = "False" => logs' = logs
            /\ Len(logs') = okLogged']_vars
\* A rejected call that was given a list already holding two entries.
C10_Witness ==
    /\ last.op = "add_item" /\ last.logged /\ last.ret = "False"
    /\ Len(logs) = 2 /\ okLogged = 2 /\ ncalls = MaxCalls

====
